---- MODULE Spec2Model ----
(***************************************************************************)
(* The in-memory CRUD service of src/main.py: four insertion-ordered       *)
(* stores (persons, addresses, songs, artists), the pydantic schemas of    *)
(* src/models, and one action per request handler.                         *)
(***************************************************************************)
EXTENDS Integers, Sequences, FiniteSets, TLC

\* ------------------------------------------------------------------ bounds
\* Identifiers the clients and uuid4 draw from are Uuid(1) .. Uuid(MaxUuid).
MaxUuid == 2
\* The clock (datetime.utcnow) runs from 0 to MaxTime.
MaxTime == 1
\* Records stored in the four stores together.
MaxRecords == 2
\* Longest embedded list (artists of a song, addresses of a person) in a payload.
MaxEmbedded == 2
\* Filters one list request supplies.
MaxFilters == 2
\* Worker threads that serve requests at the same time.
MaxThreads == 2

\* ----------------------------------------------------------- Python values
\* Every Python value carries its type, so that Python's == between values
\* of different types (a UUID and a str, a str and None) is FALSE as in Python.
Str(s) == [t |-> "str", v |-> s]
None == [t |-> "NoneType", v |-> "None"]
Uuid(n) == [t |-> "UUID", v |-> ToString(n)]
Datetime(n) == [t |-> "datetime", v |-> n]
Timedelta(s) == [t |-> "timedelta", v |-> s]
Date(s) == [t |-> "date", v |-> s]
List(s) == [t |-> "list", v |-> s]

IsStr(x) == x.t = "str"
IsNone(x) == x.t = "NoneType"
IsUuid(x) == x.t = "UUID"
IsList(x) == x.t = "list"
IsTimedelta(x) == x.t = "timedelta"
IsOptional(x, ty) == x.t \in {ty, "NoneType"}

Uuids == {Uuid(n) : n \in 1..MaxUuid}

\* str(x) of a value, as list_persons applies it to birth_date.
str(x) == IF IsNone(x) THEN Str("None") ELSE Str(x.v)

\* ------------------------------------------------ insertion-ordered dicts
\* A Python dict keeps insertion order: a sequence of [k, v] entries with
\* distinct keys.
dict_keys(d) == {d[i].k : i \in DOMAIN d}
dict_in(d, k) == k \in dict_keys(d)
dict_get(d, k) == d[CHOOSE i \in DOMAIN d : d[i].k = k].v
\* d[k] = v: an existing key keeps its place, a new key goes last.
dict_setitem(d, k, v) ==
    IF dict_in(d, k)
    THEN [i \in DOMAIN d |-> IF d[i].k = k THEN [k |-> k, v |-> v] ELSE d[i]]
    ELSE Append(d, [k |-> k, v |-> v])
dict_pop(d, k) == SelectSeq(d, LAMBDA e : e.k # k)
dict_values(d) == [i \in DOMAIN d |-> d[i].v]
\* a.update(b) on two field dicts (functions of field names).
dict_update(a, b) ==
    [f \in DOMAIN a \cup DOMAIN b |-> IF f \in DOMAIN b THEN b[f] ELSE a[f]]

Range(xs) == {xs[i] : i \in DOMAIN xs}
\* [x for x in xs if P(x)]
Filter(xs, P(_)) == SelectSeq(xs, P)

VARIABLES persons, addresses, songs, artists, now, threads, round_start

vars == <<persons, addresses, songs, artists, now, threads, round_start>>
\* The four module-level dicts of main.py.
Stores == [persons |-> persons, addresses |-> addresses, songs |-> songs, artists |-> artists]


\* A uuid4() call returns an identifier no record carries yet.
UsedUuids ==
    dict_keys(persons) \cup dict_keys(addresses) \cup dict_keys(songs) \cup dict_keys(artists)
        \cup {persons[i].v.id : i \in DOMAIN persons}
        \cup {addresses[i].v.id : i \in DOMAIN addresses}
        \cup {songs[i].v.id : i \in DOMAIN songs}
        \cup {artists[i].v.id : i \in DOMAIN artists}
        \cup UNION {{a.id : a \in Range(songs[i].v.artists.v)} : i \in DOMAIN songs}
        \cup UNION {{a.id : a \in Range(persons[i].v.addresses.v)} : i \in DOMAIN persons}
uuid4 == Uuids \ UsedUuids
utcnow == Datetime(now)

\* ------------------------------------------------------------- payloads
\* A JSON body is a function from the fields it supplies to their values.
Unset == [t |-> "unset", v |-> "unset"]
Payload(r) == [f \in {g \in DOMAIN r : r[g] # Unset} |-> r[f]]
ArtistNames == {Str("The Weekend"), Str("Abel")}

\* Bodies sent to the artist endpoints: with and without an id, with and
\* without real_name, the empty body, and a body that nulls real_name.
RawArtists ==
    {Payload([id |-> i, name |-> n, real_name |-> r]) :
        i \in Uuids \cup {Unset}, n \in ArtistNames, r \in {Unset, Str("Abel Tesfaye")}}
    \cup {Payload([name |-> Unset]),
          [name |-> Str("Abel"), real_name |-> None, bio |-> None]}

\* ------------------------------------------------- models/artists.py
\* A validated model instance: its field values and the fields the caller set.
\* model_dump() gives every field, model_dump(exclude_unset=True) only the
\* fields set.
model_dump(m) == m.fields
model_dump_exclude_unset(m) == [f \in m.fields_set |-> m.fields[f]]
Default(raw, f, d) == IF f \in DOMAIN raw THEN raw[f] ELSE d

\* ArtistBase: id defaults to uuid4(), name is required, real_name and bio
\* default to None.
ArtistBase_valid(raw) ==
    /\ "name" \in DOMAIN raw /\ IsStr(raw.name)
    /\ "id" \in DOMAIN raw => IsUuid(raw.id)
    /\ "real_name" \in DOMAIN raw => IsOptional(raw.real_name, "str")
    /\ "bio" \in DOMAIN raw => IsOptional(raw.bio, "str")
ArtistBase(raw, u) ==
    [fields |-> [id |-> Default(raw, "id", u),
                 name |-> raw.name,
                 real_name |-> Default(raw, "real_name", None),
                 bio |-> Default(raw, "bio", None)],
     fields_set |-> DOMAIN raw \cap {"id", "name", "real_name", "bio"}]
\* ArtistCreate and ArtistUpdate inherit ArtistBase and redeclare its fields
\* unchanged: name stays required, id stays a field.
ArtistCreate_valid(raw) == ArtistBase_valid(raw)
ArtistCreate(raw, u) == ArtistBase(raw, u)
ArtistUpdate_valid(raw) == ArtistBase_valid(raw)
ArtistUpdate(raw, u) == ArtistBase(raw, u)
\* ArtistRead adds created_at and updated_at, each defaulting to utcnow().
\* The stores keep a Read record as its field values.
ArtistRead_valid(raw) == ArtistBase_valid(raw)
ArtistRead(raw, u) ==
    [id |-> Default(raw, "id", u),
     name |-> raw.name,
     real_name |-> Default(raw, "real_name", None),
     bio |-> Default(raw, "bio", None),
     created_at |-> Default(raw, "created_at", utcnow),
     updated_at |-> Default(raw, "updated_at", utcnow)]

\* The identifiers a default_factory=uuid4 may give a body: none is drawn
\* when the body carries an id.
DrawId(raw) == IF "id" \in DOMAIN raw THEN {raw.id} ELSE uuid4

\* Stands for an id a default_factory draws that nothing reads: exclude_unset
\* drops an Update body's unset id from the dump, and an element that carries
\* an id needs none.
UnreadId == Uuid(0)

\* --------------------------------------------------- models/songs.py
SongNames == {Str("Save Your Tears"), Str("Blinding Lights")}
\* Embedded artists a body may list; the second carries no id.
EmbeddedArtists ==
    <<[id |-> Uuid(1), name |-> Str("The Weekend")],
      [name |-> Str("Abel")],
      [id |-> Uuid(2), name |-> Str("The Weekend"), real_name |-> Str("Abel Tesfaye")]>>
ArtistLists == {List(SubSeq(EmbeddedArtists, 1, n)) : n \in 0..MaxEmbedded}
\* Bodies sent to the song endpoints: complete ones (with and without id and
\* artists), ones that null a field, the empty body and a name-only body.
RawSongs ==
    {Payload([id |-> i, name |-> n, artists |-> a,
              length |-> Timedelta("PT3M36S"), published_date |-> Str("2020-03-20")]) :
        i \in Uuids \cup {Unset}, n \in SongNames, a \in ArtistLists \cup {Unset}}
    \cup {[name |-> None, length |-> Timedelta("PT3M36S"), published_date |-> Str("2020-03-20")],
          [name |-> Str("Save Your Tears"), length |-> None, published_date |-> Str("2020-03-20")],
          [name |-> Str("Save Your Tears"), length |-> Timedelta("PT3M36S"), published_date |-> None],
          [name |-> Str("Save Your Tears"), artists |-> None,
           length |-> Timedelta("PT3M36S"), published_date |-> Str("2020-03-20")],
          Payload([name |-> Unset]),
          [name |-> Str("Blinding Lights")]}

\* List[ArtistBase]: a list whose every element validates as ArtistBase.
\* us[i] is the id uuid4 gives element i when it carries none.
ArtistBaseList_valid(x) == IsList(x) /\ \A i \in DOMAIN x.v : ArtistBase_valid(x.v[i])
Drawn(us, i) == IF i \in DOMAIN us THEN us[i] ELSE UnreadId
ArtistBaseList(x, us) == List([i \in DOMAIN x.v |-> ArtistBase(x.v[i], Drawn(us, i))])
\* Dumping a model dumps its nested models the same way.
dump_list(ms) == List([i \in DOMAIN ms.v |-> model_dump(ms.v[i])])
dump_list_exclude_unset(ms) == List([i \in DOMAIN ms.v |-> model_dump_exclude_unset(ms.v[i])])

\* SongBase: id defaults to uuid4(), artists to [], name, length and
\* published_date are required.
SongBase_valid(raw) ==
    /\ {"name", "length", "published_date"} \subseteq DOMAIN raw
    /\ IsStr(raw.name) /\ IsTimedelta(raw.length) /\ IsStr(raw.published_date)
    /\ "id" \in DOMAIN raw => IsUuid(raw.id)
    /\ "artists" \in DOMAIN raw => ArtistBaseList_valid(raw.artists)
SongBase(raw, u, us) ==
    [fields |-> [id |-> Default(raw, "id", u),
                 name |-> raw.name,
                 artists |-> IF "artists" \in DOMAIN raw
                             THEN ArtistBaseList(raw.artists, us) ELSE List(<<>>),
                 length |-> raw.length,
                 published_date |-> raw.published_date],
     fields_set |-> DOMAIN raw \cap {"id", "name", "artists", "length", "published_date"}]
SongBase_dump(m) == [m.fields EXCEPT !.artists = dump_list(@)]
SongBase_dump_exclude_unset(m) ==
    [f \in m.fields_set |->
        IF f = "artists" /\ ~IsNone(m.fields[f])
        THEN dump_list_exclude_unset(m.fields[f]) ELSE m.fields[f]]
SongCreate_valid(raw) == SongBase_valid(raw)
SongCreate(raw, u, us) == SongBase(raw, u, us)
\* SongUpdate redeclares name, length and published_date as Optional with no
\* default (still required, None allowed) and artists as Optional with
\* default []; id is inherited.
SongUpdate_valid(raw) ==
    /\ {"name", "length", "published_date"} \subseteq DOMAIN raw
    /\ IsOptional(raw.name, "str") /\ IsOptional(raw.length, "timedelta")
    /\ IsOptional(raw.published_date, "str")
    /\ "id" \in DOMAIN raw => IsUuid(raw.id)
    /\ "artists" \in DOMAIN raw => IsNone(raw.artists) \/ ArtistBaseList_valid(raw.artists)
SongUpdate(raw, u, us) ==
    [fields |-> [id |-> Default(raw, "id", u),
                 name |-> raw.name,
                 artists |-> IF "artists" \notin DOMAIN raw THEN List(<<>>)
                             ELSE IF IsNone(raw.artists) THEN None
                             ELSE ArtistBaseList(raw.artists, us),
                 length |-> raw.length,
                 published_date |-> raw.published_date],
     fields_set |-> DOMAIN raw \cap {"id", "name", "artists", "length", "published_date"}]
\* SongRead adds created_at and updated_at, each defaulting to utcnow().
SongRead_valid(raw) == SongBase_valid(raw)
SongRead(raw, u, us) ==
    [id |-> Default(raw, "id", u),
     name |-> raw.name,
     artists |-> IF "artists" \in DOMAIN raw
                 THEN dump_list(ArtistBaseList(raw.artists, us)) ELSE List(<<>>),
     length |-> raw.length,
     published_date |-> raw.published_date,
     created_at |-> Default(raw, "created_at", utcnow),
     updated_at |-> Default(raw, "updated_at", utcnow)]

\* The ids uuid4 may give the embedded models of field f of a body: the
\* elements without an id get distinct new ids other than u.
DrawIds(raw, f, u) ==
    IF f \notin DOMAIN raw \/ ~IsList(raw[f])
    THEN {<<>>}
    ELSE LET xs == raw[f].v
             need == {i \in DOMAIN xs : "id" \notin DOMAIN xs[i]}
         IN  {us \in [DOMAIN xs -> Uuids \cup {UnreadId}] :
                /\ \A i \in DOMAIN xs \ need : us[i] = UnreadId
                /\ \A i \in need : us[i] \in uuid4 \ {u}
                /\ \A i, j \in need : i # j => us[i] # us[j]}

\* ------------------------------------------------- models/address.py
\* Address: id, street, city, state, postal_code, country; a Read record adds
\* created_at and updated_at. The Update body has every field optional and
\* no id.
AddressFields == {"street", "city", "state", "postal_code", "country"}
EmbeddedAddresses ==
    <<[id |-> Uuid(1), street |-> Str("1 Rue A"), city |-> Str("Paris"), state |-> Str("IDF"),
       postal_code |-> Str("75001"), country |-> Str("France")],
      [id |-> Uuid(2), street |-> Str("1 Rue A"), city |-> Str("London"), state |-> Str("IDF"),
       postal_code |-> Str("75001"), country |-> Str("UK")],
      [id |-> Uuid(1), street |-> Str("1 Rue A"), city |-> Str("Paris"), state |-> Str("IDF"),
       postal_code |-> Str("75001"), country |-> Str("UK")]>>
AddressLists == {List(SubSeq(EmbeddedAddresses, 1, n)) : n \in 0..MaxEmbedded}
\* Bodies sent to the address endpoints: complete ones, with and without
\* id, and partial ones (one with an id), down to the empty body.
RawAddresses ==
    {Payload([id |-> i, street |-> Str("1 Rue A"), city |-> c, state |-> Str("IDF"),
              postal_code |-> Str("75001"), country |-> Str("France")]) :
        i \in Uuids \cup {Unset}, c \in {Str("Paris"), Str("London")}}
    \cup {[city |-> Str("London")], [country |-> Str("UK")],
          [id |-> Uuid(2), city |-> Str("Paris")], Payload([city |-> Unset])}

AddressBase_valid(raw) ==
    /\ AddressFields \subseteq DOMAIN raw
    /\ \A f \in AddressFields : IsStr(raw[f])
    /\ "id" \in DOMAIN raw => IsUuid(raw.id)
AddressBase(raw, u) ==
    [fields |-> [f \in AddressFields \cup {"id"} |-> IF f = "id" THEN Default(raw, "id", u) ELSE raw[f]],
     fields_set |-> DOMAIN raw \cap (AddressFields \cup {"id"})]
AddressCreate_valid(raw) == AddressBase_valid(raw)
AddressCreate(raw, u) == AddressBase(raw, u)
AddressUpdate_valid(raw) == \A f \in DOMAIN raw \cap AddressFields : IsOptional(raw[f], "str")
AddressUpdate(raw) ==
    [fields |-> [f \in AddressFields |-> Default(raw, f, None)],
     fields_set |-> DOMAIN raw \cap AddressFields]
AddressRead_valid(raw) == AddressBase_valid(raw)
AddressRead(raw, u) ==
    [f \in AddressFields \cup {"id", "created_at", "updated_at"} |->
        IF f = "id" THEN Default(raw, "id", u)
        ELSE IF f \in {"created_at", "updated_at"} THEN Default(raw, f, utcnow)
        ELSE raw[f]]

AddressBaseList_valid(x) == IsList(x) /\ \A i \in DOMAIN x.v : AddressBase_valid(x.v[i])
AddressBaseList(x, us) == List([i \in DOMAIN x.v |-> AddressBase(x.v[i], Drawn(us, i))])

\* -------------------------------------------------- models/person.py
\* Person: uni, first_name and last_name are required, email, phone and
\* birth_date optional, addresses a list of embedded addresses. Only the Read
\* record has an id (uuid4) and the timestamps; the Update body has every
\* field optional.
PersonRequired == {"uni", "first_name", "last_name"}
PersonOptional == {"email", "phone", "birth_date"}
PersonFields == PersonRequired \cup PersonOptional \cup {"addresses"}
\* Bodies sent to the person endpoints.
RawPersons ==
    {Payload([uni |-> Str("ab1234"), first_name |-> Str("Ada"), last_name |-> Str("Lovelace"),
              birth_date |-> b, addresses |-> a]) :
        b \in {Unset, Date("1815-12-10")}, a \in AddressLists \cup {Unset}}
    \cup {[id |-> Uuid(1), uni |-> Str("cd5678"), first_name |-> Str("Ada"), last_name |-> Str("Lovelace")],
          [birth_date |-> None],
          Payload([uni |-> Unset])}

PersonOptional_valid(raw) ==
    /\ \A f \in DOMAIN raw \cap {"email", "phone"} : IsOptional(raw[f], "str")
    /\ "birth_date" \in DOMAIN raw => IsOptional(raw.birth_date, "date")
PersonBase_valid(raw) ==
    /\ PersonRequired \subseteq DOMAIN raw
    /\ \A f \in PersonRequired : IsStr(raw[f])
    /\ PersonOptional_valid(raw)
    /\ "addresses" \in DOMAIN raw => AddressBaseList_valid(raw.addresses)
PersonBase(raw, us) ==
    [fields |-> [f \in PersonFields |->
                    IF f = "addresses"
                    THEN (IF f \in DOMAIN raw THEN AddressBaseList(raw[f], us) ELSE List(<<>>))
                    ELSE Default(raw, f, None)],
     fields_set |-> DOMAIN raw \cap PersonFields]
PersonCreate_valid(raw) == PersonBase_valid(raw)
PersonCreate(raw, us) == PersonBase(raw, us)
PersonUpdate_valid(raw) ==
    /\ \A f \in DOMAIN raw \cap PersonRequired : IsOptional(raw[f], "str")
    /\ PersonOptional_valid(raw)
    /\ "addresses" \in DOMAIN raw => IsNone(raw.addresses) \/ AddressBaseList_valid(raw.addresses)
PersonUpdate(raw, us) ==
    [fields |-> [f \in PersonFields |->
                    IF f = "addresses" /\ f \in DOMAIN raw /\ ~IsNone(raw[f])
                    THEN AddressBaseList(raw[f], us)
                    ELSE Default(raw, f, None)],
     fields_set |-> DOMAIN raw \cap PersonFields]
Person_dump(m) == [m.fields EXCEPT !.addresses = dump_list(@)]
Person_dump_exclude_unset(m) ==
    [f \in m.fields_set |->
        IF f = "addresses" /\ ~IsNone(m.fields[f])
        THEN dump_list_exclude_unset(m.fields[f]) ELSE m.fields[f]]
PersonRead_valid(raw) == PersonBase_valid(raw)
PersonRead(raw, u, us) ==
    [f \in PersonFields \cup {"id", "created_at", "updated_at"} |->
        IF f = "id" THEN Default(raw, "id", u)
        ELSE IF f \in {"created_at", "updated_at"} THEN Default(raw, f, utcnow)
        ELSE IF f = "addresses"
        THEN (IF f \in DOMAIN raw THEN dump_list(AddressBaseList(raw[f], us)) ELSE List(<<>>))
        ELSE Default(raw, f, None)]

\* ------------------------------------------------------------ responses
\* What a handler does with a request: the response (status and body) and the
\* four stores as it leaves them.
Result(status, body, st) == [status |-> status, body |-> body, stores |-> st]
\* raise HTTPException(...): the stores are as they were.
HTTPException(status_code, detail) == Result(status_code, Str(detail), Stores)
\* FastAPI answers a body that fails the parameter's schema before the
\* handler runs.
Unprocessable == Result(422, Str("Unprocessable Entity"), Stores)
\* Any other exception leaving a handler (a pydantic ValidationError) is a
\* server fault; the handlers build the record before they store it.
InternalServerError == Result(500, Str("Internal Server Error"), Stores)

\* ------------------------------------------------------ address endpoints
create_address(raw, u) ==
    IF ~AddressCreate_valid(raw) THEN Unprocessable
    ELSE LET address == AddressCreate(raw, u)
             id == address.fields.id
         IN  IF dict_in(addresses, id)
             THEN HTTPException(400, "Address with this ID already exists")
             ELSE LET addresses2 == dict_setitem(addresses, id, AddressRead(model_dump(address), u))
                  IN  Result(201, dict_get(addresses2, id), [Stores EXCEPT !.addresses = addresses2])

list_addresses(street, city, state, postal_code, country) ==
    LET results0 == dict_values(addresses)
        results1 == IF street # None THEN Filter(results0, LAMBDA a : a.street = street) ELSE results0
        results2 == IF city # None THEN Filter(results1, LAMBDA a : a.city = city) ELSE results1
        results3 == IF state # None THEN Filter(results2, LAMBDA a : a.state = state) ELSE results2
        results4 == IF postal_code # None
                    THEN Filter(results3, LAMBDA a : a.postal_code = postal_code) ELSE results3
        results5 == IF country # None THEN Filter(results4, LAMBDA a : a.country = country) ELSE results4
    IN  Result(200, List(results5), Stores)

get_address(address_id) ==
    IF ~dict_in(addresses, address_id) THEN HTTPException(404, "Address not found")
    ELSE Result(200, dict_get(addresses, address_id), Stores)

\* update_address that also refreshes the last-update timestamp.
update_address_touch(address_id, raw) ==
    IF ~AddressUpdate_valid(raw) THEN Unprocessable
    ELSE IF ~dict_in(addresses, address_id) THEN HTTPException(404, "Address not found")
    ELSE LET update == AddressUpdate(raw)
             stored == dict_update(dict_get(addresses, address_id), model_dump_exclude_unset(update))
         IN  IF ~AddressRead_valid(stored) THEN InternalServerError
             ELSE LET addresses2 == dict_setitem(addresses, address_id,
                                                 [AddressRead(stored, UnreadId) EXCEPT !.updated_at = utcnow])
                  IN  Result(200, dict_get(addresses2, address_id), [Stores EXCEPT !.addresses = addresses2])

update_address(address_id, raw) ==
    IF ~AddressUpdate_valid(raw) THEN Unprocessable
    ELSE IF ~dict_in(addresses, address_id) THEN HTTPException(404, "Address not found")
    ELSE LET update == AddressUpdate(raw)
             stored == dict_update(dict_get(addresses, address_id), model_dump_exclude_unset(update))
         IN  IF ~AddressRead_valid(stored) THEN InternalServerError
             ELSE LET addresses2 == dict_setitem(addresses, address_id, AddressRead(stored, UnreadId))
                  IN  Result(200, dict_get(addresses2, address_id), [Stores EXCEPT !.addresses = addresses2])

\* ------------------------------------------------------- person endpoints
\* create_person that returns the record built from the body and stores a
\* second one built later.
create_person_rebuilt(raw, u, us) ==
    IF ~PersonCreate_valid(raw) THEN Unprocessable
    ELSE LET person == PersonCreate(raw, us)
             person_read == PersonRead(Person_dump(person), u, us)
             persons2 == dict_setitem(persons, person_read.id,
                                      [person_read EXCEPT !.updated_at = Datetime(now + 1)])
         IN  Result(201, person_read, [Stores EXCEPT !.persons = persons2])

create_person(raw, u, us) ==
    IF ~PersonCreate_valid(raw) THEN Unprocessable
    ELSE LET person == PersonCreate(raw, us)
             person_read == PersonRead(Person_dump(person), u, us)
             persons2 == dict_setitem(persons, person_read.id, person_read)
         IN  Result(201, person_read, [Stores EXCEPT !.persons = persons2])

list_persons(uni, first_name, last_name, email, phone, birth_date, city, country) ==
    LET results0 == dict_values(persons)
        results1 == IF uni # None THEN Filter(results0, LAMBDA p : p.uni = uni) ELSE results0
        results2 == IF first_name # None
                    THEN Filter(results1, LAMBDA p : p.first_name = first_name) ELSE results1
        results3 == IF last_name # None
                    THEN Filter(results2, LAMBDA p : p.last_name = last_name) ELSE results2
        results4 == IF email # None THEN Filter(results3, LAMBDA p : p.email = email) ELSE results3
        results5 == IF phone # None THEN Filter(results4, LAMBDA p : p.phone = phone) ELSE results4
        results6 == IF birth_date # None
                    THEN Filter(results5, LAMBDA p : str(p.birth_date) = birth_date) ELSE results5
        results7 == IF city # None
                    THEN Filter(results6, LAMBDA p : \E addr \in Range(p.addresses.v) : addr.city = city)
                    ELSE results6
        results8 == IF country # None
                    THEN Filter(results7, LAMBDA p : \E addr \in Range(p.addresses.v) : addr.country = country)
                    ELSE results7
    IN  Result(200, List(results8), Stores)

get_person(person_id) ==
    IF ~dict_in(persons, person_id) THEN HTTPException(404, "Person not found")
    ELSE Result(200, dict_get(persons, person_id), Stores)

update_person(person_id, raw, us) ==
    IF ~PersonUpdate_valid(raw) THEN Unprocessable
    ELSE IF ~dict_in(persons, person_id) THEN HTTPException(404, "Person not found")
    ELSE LET update == PersonUpdate(raw, us)
             stored == dict_update(dict_get(persons, person_id), Person_dump_exclude_unset(update))
         IN  IF ~PersonRead_valid(stored) THEN InternalServerError
             ELSE LET persons2 == dict_setitem(persons, person_id, PersonRead(stored, UnreadId, us))
                  IN  Result(200, dict_get(persons2, person_id), [Stores EXCEPT !.persons = persons2])

\* -------------------------------------------------------- song endpoints
\* create_song without its check for an existing identifier.
create_song_unchecked(raw, u, us) ==
    IF ~SongCreate_valid(raw) THEN Unprocessable
    ELSE LET song == SongCreate(raw, u, us)
             song_read == SongRead(SongBase_dump(song), u, us)
             songs2 == dict_setitem(songs, song_read.id, song_read)
         IN  Result(201, song_read, [Stores EXCEPT !.songs = songs2])

create_song(raw, u, us) ==
    IF ~SongCreate_valid(raw) THEN Unprocessable
    ELSE LET song == SongCreate(raw, u, us)
         IN  IF dict_in(songs, song.fields.id)
             THEN HTTPException(400, "Song with this ID already exists")
             ELSE LET song_read == SongRead(SongBase_dump(song), u, us)
                      songs2 == dict_setitem(songs, song_read.id, song_read)
                  IN  Result(201, song_read, [Stores EXCEPT !.songs = songs2])

\* list_song whose artist_name filter looks at the first artist only.
list_song_first(id, name, artist_name) ==
    LET results0 == dict_values(songs)
        results1 == IF id # None THEN Filter(results0, LAMBDA s : s.id = id) ELSE results0
        results2 == IF name # None THEN Filter(results1, LAMBDA s : s.name = name) ELSE results1
        results3 == IF artist_name # None
                    THEN Filter(results2, LAMBDA s : Len(s.artists.v) > 0 /\ s.artists.v[1].name = artist_name)
                    ELSE results2
    IN  Result(200, List(results3), Stores)

list_song(id, name, artist_name) ==
    LET results0 == dict_values(songs)
        results1 == IF id # None THEN Filter(results0, LAMBDA s : s.id = id) ELSE results0
        results2 == IF name # None THEN Filter(results1, LAMBDA s : s.name = name) ELSE results1
        results3 == IF artist_name # None
                    THEN Filter(results2, LAMBDA s : \E a \in Range(s.artists.v) : a.name = artist_name)
                    ELSE results2
    IN  Result(200, List(results3), Stores)

get_song(song_id) ==
    IF ~dict_in(songs, song_id) THEN HTTPException(404, "Song not found")
    ELSE Result(200, dict_get(songs, song_id), Stores)

update_song(song_id, raw, us) ==
    IF ~SongUpdate_valid(raw) THEN Unprocessable
    ELSE IF ~dict_in(songs, song_id) THEN HTTPException(404, "Song not found")
    ELSE LET update == SongUpdate(raw, UnreadId, us)
             stored == dict_update(dict_get(songs, song_id), SongBase_dump_exclude_unset(update))
         IN  IF ~SongRead_valid(stored) THEN InternalServerError
             ELSE LET songs2 == dict_setitem(songs, song_id, SongRead(stored, UnreadId, us))
                  IN  Result(200, dict_get(songs2, song_id), [Stores EXCEPT !.songs = songs2])

\* The f-string of a delete's confirmation message.
Detail(kind, name) == [detail |-> <<kind, " '", name.v, "' was deleted successfully">>]

\* delete_song that answers without removing the record.
delete_song_keep(song_id) ==
    IF ~dict_in(songs, song_id) THEN HTTPException(404, "Song not found")
    ELSE Result(200, Detail("Song", dict_get(songs, song_id).name), Stores)

delete_song(song_id) ==
    IF ~dict_in(songs, song_id) THEN HTTPException(404, "Song not found")
    ELSE LET deleted_song == dict_get(songs, song_id)
         IN  Result(200, Detail("Song", deleted_song.name),
                    [Stores EXCEPT !.songs = dict_pop(songs, song_id)])

\* ------------------------------------------------------ artists endpoints
create_artists(raw, u) ==
    IF ~ArtistCreate_valid(raw) THEN Unprocessable
    ELSE LET artist == ArtistCreate(raw, u)
             id == artist.fields.id
         IN  IF dict_in(artists, id)
             THEN HTTPException(400, "Artist with this ID already exists")
             ELSE LET artists2 == dict_setitem(artists, id, ArtistRead(model_dump(artist), u))
                  IN  Result(201, dict_get(artists2, id), [Stores EXCEPT !.artists = artists2])

list_artist(id, name) ==
    LET results0 == dict_values(artists)
        results1 == IF id # None THEN Filter(results0, LAMBDA a : a.id = id) ELSE results0
        results2 == IF name # None THEN Filter(results1, LAMBDA a : a.name = name) ELSE results1
    IN  Result(200, List(results2), Stores)

get_artist(artist_id) ==
    IF ~dict_in(artists, artist_id) THEN HTTPException(404, "Artist not found")
    ELSE Result(200, dict_get(artists, artist_id), Stores)

\* update_artist that also rewrites the snapshots of the artist embedded in songs.
update_artist_propagating(artist_id, raw) ==
    IF ~ArtistUpdate_valid(raw) THEN Unprocessable
    ELSE IF ~dict_in(artists, artist_id) THEN HTTPException(404, "Artist not found")
    ELSE LET update == ArtistUpdate(raw, UnreadId)
             stored == dict_update(dict_get(artists, artist_id), model_dump_exclude_unset(update))
         IN  IF ~ArtistRead_valid(stored) THEN InternalServerError
             ELSE LET artists2 == dict_setitem(artists, artist_id, ArtistRead(stored, UnreadId))
                      songs2 == [i \in DOMAIN songs |->
                                    [songs[i] EXCEPT !.v.artists.v =
                                        [j \in DOMAIN @ |->
                                            IF @[j].id = artist_id
                                            THEN [@[j] EXCEPT !.name = stored.name] ELSE @[j]]]]
                  IN  Result(200, dict_get(artists2, artist_id),
                             [Stores EXCEPT !.artists = artists2, !.songs = songs2])

update_artist(artist_id, raw) ==
    IF ~ArtistUpdate_valid(raw) THEN Unprocessable
    ELSE IF ~dict_in(artists, artist_id) THEN HTTPException(404, "Artist not found")
    ELSE LET update == ArtistUpdate(raw, UnreadId)
             stored == dict_update(dict_get(artists, artist_id), model_dump_exclude_unset(update))
         IN  IF ~ArtistRead_valid(stored) THEN InternalServerError
             ELSE LET artists2 == dict_setitem(artists, artist_id, ArtistRead(stored, UnreadId))
                  IN  Result(200, dict_get(artists2, artist_id), [Stores EXCEPT !.artists = artists2])

delete_artist(artist_id) ==
    IF ~dict_in(artists, artist_id) THEN HTTPException(404, "Artist not found")
    ELSE LET deleted_artist == dict_get(artists, artist_id)
         IN  Result(200, Detail("Artist", deleted_artist.name),
                    [Stores EXCEPT !.artists = dict_pop(artists, artist_id)])

\* --------------------------------------------------------------- requests
\* Query strings of the list endpoints: each filter is absent (None) or a str.
Supplied(f) == Cardinality({x \in DOMAIN f : f[x] # None})
IdFilters == {None} \cup {Str(u.v) : u \in Uuids}
AddressFilters ==
    {f \in [street : {None, Str("1 Rue A")}, city : {None, Str("Paris"), Str("London")},
            state : {None, Str("IDF")}, postal_code : {None, Str("75001")},
            country : {None, Str("France"), Str("UK")}] : Supplied(f) <= MaxFilters}
PersonFilters ==
    {f \in [uni : {None, Str("ab1234"), Str("cd5678")}, first_name : {None, Str("Ada")},
            last_name : {None, Str("Lovelace")}, email : {None, Str("ada@example.com")},
            phone : {None, Str("555")}, birth_date : {None, Str("1815-12-10"), Str("1815-12-11")},
            city : {None, Str("Paris"), Str("London")},
            country : {None, Str("France"), Str("UK")}] : Supplied(f) <= MaxFilters}
SongFilters ==
    {f \in [id : IdFilters, name : {None} \cup SongNames, artist_name : {None} \cup ArtistNames] :
        Supplied(f) <= MaxFilters}
ArtistFilters ==
    {f \in [id : IdFilters, name : {None} \cup ArtistNames] : Supplied(f) <= MaxFilters}

\* The handler's result becomes the state; the clock is the handlers' input.
Commit(r) ==
    /\ persons' = r.stores.persons
    /\ addresses' = r.stores.addresses
    /\ songs' = r.stores.songs
    /\ artists' = r.stores.artists
    /\ UNCHANGED <<now, threads, round_start>>
\* The stores of a result hold at most MaxRecords records.
Room(r) ==
    Len(r.stores.persons) + Len(r.stores.addresses) + Len(r.stores.songs) + Len(r.stores.artists)
        <= MaxRecords

PostAddresses ==
    \E raw \in RawAddresses : \E u \in DrawId(raw) :
        LET r == create_address(raw, u) IN Room(r) /\ Commit(r)
ListAddresses ==
    \E f \in AddressFilters : Commit(list_addresses(f.street, f.city, f.state, f.postal_code, f.country))
GetAddress == \E k \in Uuids : Commit(get_address(k))
PatchAddress == \E k \in Uuids : \E raw \in RawAddresses : Commit(update_address(k, raw))

PostPersons ==
    \E raw \in RawPersons : \E u \in uuid4 : \E us \in DrawIds(raw, "addresses", u) :
        LET r == create_person(raw, u, us) IN Room(r) /\ Commit(r)
ListPersons ==
    \E f \in PersonFilters :
        Commit(list_persons(f.uni, f.first_name, f.last_name, f.email, f.phone, f.birth_date,
                            f.city, f.country))
GetPerson == \E k \in Uuids : Commit(get_person(k))
PatchPerson ==
    \E k \in Uuids : \E raw \in RawPersons : \E us \in DrawIds(raw, "addresses", UnreadId) :
        Commit(update_person(k, raw, us))

PostSongs ==
    \E raw \in RawSongs : \E u \in DrawId(raw) : \E us \in DrawIds(raw, "artists", u) :
        LET r == create_song(raw, u, us) IN Room(r) /\ Commit(r)
ListSongs == \E f \in SongFilters : Commit(list_song(f.id, f.name, f.artist_name))
GetSong == \E k \in Uuids : Commit(get_song(k))
PatchSong ==
    \E k \in Uuids : \E raw \in RawSongs : \E us \in DrawIds(raw, "artists", UnreadId) :
        Commit(update_song(k, raw, us))
DeleteSong == \E k \in Uuids : Commit(delete_song(k))

PostArtists ==
    \E raw \in RawArtists : \E u \in DrawId(raw) :
        LET r == create_artists(raw, u) IN Room(r) /\ Commit(r)
ListArtists == \E f \in ArtistFilters : Commit(list_artist(f.id, f.name))
GetArtist == \E k \in Uuids : Commit(get_artist(k))
PatchArtist == \E k \in Uuids : \E raw \in RawArtists : Commit(update_artist(k, raw))
DeleteArtist == \E k \in Uuids : Commit(delete_artist(k))

\* Time passes between requests.
Tick ==
    /\ now < MaxTime /\ now' = now + 1
    /\ UNCHANGED <<persons, addresses, songs, artists, threads, round_start>>

\* ------------------------------------------- song handlers, step by step
\* main.py declares its handlers with def, so the server runs each request
\* in a worker thread and nothing orders the threads' accesses to the songs
\* dict: a handler's membership test, its read of songs[song_id] and its
\* write or pop are separate steps.
Threads == 1..MaxThreads
\* A thread: where it is in its handler (idle, check, read, write, pop,
\* return, done), the request it serves, the handler's local `stored`, and
\* the status it answered.
Idle ==
    [pc |-> "idle", req |-> [op |-> "none", song_id |-> None, raw |-> None],
     stored |-> None, status |-> 0]
\* Complete bodies without nulls and without artists: with an id for a
\* create, without one for an update.
SongCreateBodies ==
    {raw \in RawSongs : DOMAIN raw = {"id", "name", "length", "published_date"}
                         /\ SongCreate_valid(raw)}
SongUpdateBodies ==
    {raw \in RawSongs : DOMAIN raw = {"name", "length", "published_date"}
                         /\ SongRead_valid(raw)}
SongRequests ==
    {[op |-> "create_song", song_id |-> raw.id, raw |-> raw] : raw \in SongCreateBodies}
    \cup {[op |-> "update_song", song_id |-> k, raw |-> raw] : k \in Uuids, raw \in SongUpdateBodies}
    \cup {[op |-> o, song_id |-> k, raw |-> None] : o \in {"get_song", "delete_song"}, k \in Uuids}

\* A step leaves a dict and a thread.
Goto(store, th, pc) == [store |-> store, th |-> [th EXCEPT !.pc = pc]]
Answer(store, th, status) == [store |-> store, th |-> [th EXCEPT !.pc = "done", !.status = status]]
\* songs[song_id] on an absent key raises KeyError, which the server answers
\* with 500.
KeyError(store, th) == Answer(store, th, 500)

create_song_step(store, th) ==
    LET song == SongCreate(th.req.raw, UnreadId, <<>>)
    IN  IF th.pc = "check"
        THEN IF dict_in(store, song.fields.id) THEN Answer(store, th, 400)
             ELSE Goto(store, th, "write")
        ELSE LET song_read == SongRead(SongBase_dump(song), UnreadId, <<>>)
             IN  Answer(dict_setitem(store, song_read.id, song_read), th, 201)

get_song_step(store, th) ==
    IF th.pc = "check"
    THEN IF ~dict_in(store, th.req.song_id) THEN Answer(store, th, 404)
         ELSE Goto(store, th, "return")
    ELSE IF ~dict_in(store, th.req.song_id) THEN KeyError(store, th)
         ELSE Answer(store, th, 200)

update_song_step(store, th) ==
    LET song_id == th.req.song_id
    IN  CASE th.pc = "check" ->
                IF ~dict_in(store, song_id) THEN Answer(store, th, 404)
                ELSE Goto(store, th, "read")
          [] th.pc = "read" ->
                IF ~dict_in(store, song_id) THEN KeyError(store, th)
                ELSE LET update == SongUpdate(th.req.raw, UnreadId, <<>>)
                         stored == dict_update(dict_get(store, song_id),
                                               SongBase_dump_exclude_unset(update))
                     IN  Goto(store, [th EXCEPT !.stored = stored], "write")
          [] th.pc = "write" ->
                IF ~SongRead_valid(th.stored) THEN Answer(store, th, 500)
                ELSE Goto(dict_setitem(store, song_id, SongRead(th.stored, UnreadId, <<>>)),
                          th, "return")
          [] OTHER ->
                IF ~dict_in(store, song_id) THEN KeyError(store, th)
                ELSE Answer(store, th, 200)

delete_song_step(store, th) ==
    IF th.pc = "check"
    THEN IF ~dict_in(store, th.req.song_id) THEN Answer(store, th, 404)
         ELSE Goto(store, th, "pop")
    ELSE IF ~dict_in(store, th.req.song_id) THEN KeyError(store, th)
         ELSE Answer(dict_pop(store, th.req.song_id), th, 200)

\* The next step of the handler a thread is in.
Step(store, th) ==
    CASE th.req.op = "create_song" -> create_song_step(store, th)
      [] th.req.op = "get_song" -> get_song_step(store, th)
      [] th.req.op = "update_song" -> update_song_step(store, th)
      [] OTHER -> delete_song_step(store, th)

Running(t) == threads[t].pc \notin {"idle", "done"}
\* A thread takes a step of its handler on the songs dict.
Run(t) ==
    /\ Running(t)
    /\ LET r == Step(songs, threads[t])
       IN  songs' = r.store /\ threads' = [threads EXCEPT ![t] = r.th]
    /\ UNCHANGED <<persons, addresses, artists, now, round_start>>
\* The server hands a request to an idle thread.
Accept ==
    \E t \in Threads : \E req \in SongRequests :
        /\ threads[t].pc = "idle"
        /\ threads' = [threads EXCEPT ![t] = [Idle EXCEPT !.pc = "check", !.req = req]]
        /\ UNCHANGED <<persons, addresses, songs, artists, now, round_start>>
CreateSongStep == \E t \in Threads : threads[t].req.op = "create_song" /\ Run(t)
GetSongStep == \E t \in Threads : threads[t].req.op = "get_song" /\ Run(t)
UpdateSongStep == \E t \in Threads : threads[t].req.op = "update_song" /\ Run(t)
DeleteSongStep == \E t \in Threads : threads[t].req.op = "delete_song" /\ Run(t)
\* No request is in flight and at least one was answered.
Quiescent ==
    /\ \A t \in Threads : ~Running(t)
    /\ \E t \in Threads : threads[t].pc = "done"
\* Once every request is answered the threads are free again; round_start
\* remembers the songs dict the next requests start from.
Release ==
    /\ Quiescent
    /\ threads' = [t \in Threads |-> Idle]
    /\ round_start' = songs
    /\ UNCHANGED <<persons, addresses, songs, artists, now>>

Init ==
    /\ persons = <<>> /\ addresses = <<>> /\ songs = <<>> /\ artists = <<>>
    /\ now = 0
    /\ threads = [t \in Threads |-> Idle]
    /\ round_start = <<>>

Next ==
    \/ PostAddresses \/ ListAddresses \/ GetAddress \/ PatchAddress
    \/ PostPersons \/ ListPersons \/ GetPerson \/ PatchPerson
    \/ PostSongs \/ ListSongs \/ GetSong \/ PatchSong \/ DeleteSong
    \/ PostArtists \/ ListArtists \/ GetArtist \/ PatchArtist \/ DeleteArtist
    \/ Tick

Spec == Init /\ [][Next]_vars

\* Requests on the songs collection served by threads that interleave.
NextThreads ==
    \/ Accept
    \/ CreateSongStep \/ GetSongStep \/ UpdateSongStep \/ DeleteSongStep
    \/ Release

SpecThreads == Init /\ [][NextThreads]_vars

\* ------------------------------------------------------------ all calls
\* P(coll, key, raw, r) of every create the model can issue whose body passes
\* the Create schema: key is the identifier the record gets, r the handler's
\* result.
ForAllCreates(P(_, _, _, _)) ==
    /\ \A raw \in RawAddresses : \A u \in DrawId(raw) :
          AddressCreate_valid(raw) => P("addresses", u, raw, create_address(raw, u))
    /\ \A raw \in RawPersons : \A u \in uuid4 : \A us \in DrawIds(raw, "addresses", u) :
          PersonCreate_valid(raw) => P("persons", u, raw, create_person(raw, u, us))
    /\ \A raw \in RawSongs : \A u \in DrawId(raw) : \A us \in DrawIds(raw, "artists", u) :
          SongCreate_valid(raw) => P("songs", u, raw, create_song(raw, u, us))
    /\ \A raw \in RawArtists : \A u \in DrawId(raw) :
          ArtistCreate_valid(raw) => P("artists", u, raw, create_artists(raw, u))
\* P(coll, key, raw, supplied, r) of every partial update whose body passes
\* the Update schema: supplied are the fields of the schema the body sets.
ForAllUpdates(P(_, _, _, _, _)) ==
    /\ \A k \in Uuids : \A raw \in RawAddresses :
          AddressUpdate_valid(raw) =>
              P("addresses", k, raw, AddressUpdate(raw).fields_set, update_address(k, raw))
    /\ \A k \in Uuids : \A raw \in RawPersons : \A us \in DrawIds(raw, "addresses", UnreadId) :
          PersonUpdate_valid(raw) =>
              P("persons", k, raw, PersonUpdate(raw, us).fields_set, update_person(k, raw, us))
    /\ \A k \in Uuids : \A raw \in RawSongs : \A us \in DrawIds(raw, "artists", UnreadId) :
          SongUpdate_valid(raw) =>
              P("songs", k, raw, SongUpdate(raw, UnreadId, us).fields_set, update_song(k, raw, us))
    /\ \A k \in Uuids : \A raw \in RawArtists :
          ArtistUpdate_valid(raw) =>
              P("artists", k, raw, ArtistUpdate(raw, UnreadId).fields_set, update_artist(k, raw))
\* P(coll, key, r) of every get and of every delete.
ForAllGets(P(_, _, _)) ==
    \A k \in Uuids :
        /\ P("addresses", k, get_address(k)) /\ P("persons", k, get_person(k))
        /\ P("songs", k, get_song(k)) /\ P("artists", k, get_artist(k))
ForAllDeletes(P(_, _, _)) ==
    \A k \in Uuids : P("songs", k, delete_song(k)) /\ P("artists", k, delete_artist(k))
\* P(coll, f, r) of every list request, f its filters.
ForAllLists(P(_, _, _)) ==
    /\ \A f \in AddressFilters :
          P("addresses", f, list_addresses(f.street, f.city, f.state, f.postal_code, f.country))
    /\ \A f \in PersonFilters :
          P("persons", f, list_persons(f.uni, f.first_name, f.last_name, f.email, f.phone,
                                       f.birth_date, f.city, f.country))
    /\ \A f \in SongFilters : P("songs", f, list_song(f.id, f.name, f.artist_name))
    /\ \A f \in ArtistFilters : P("artists", f, list_artist(f.id, f.name))

\* A body the model sends that supplies no field.
IsEmptyBody(raw) == DOMAIN raw = {}

\* ------------------------------------------------------------------- C1
\* The record a successful update leaves under k has identifier k and the
\* creation timestamp the record under k had before.
C1_KeepsIdAndCreation(coll, k, raw, supplied, r) ==
    r.status = 200 =>
        /\ dict_in(r.stores[coll], k)
        /\ dict_get(r.stores[coll], k).id = k
        /\ dict_get(r.stores[coll], k).created_at = dict_get(Stores[coll], k).created_at
\* C1: after a successful partial update on identifier k, whatever the
\* accepted body (one carrying an id included), the record stored under k has
\* identifier k and the creation timestamp it had before.
C1_UpdateKeepsIdentifier == ForAllUpdates(C1_KeepsIdAndCreation)

\* ------------------------------------------------------------------- C2
\* A create outside persons is refused (400) without effect when its
\* identifier is a key of the collection, and otherwise stores what it returns.
C2_ConflictOrStored(coll, id, raw, r) ==
    coll # "persons" =>
        IF dict_in(Stores[coll], id)
        THEN r.status = 400 /\ r.stores = Stores
        ELSE /\ r.status = 201
             /\ dict_in(r.stores[coll], id)
             /\ dict_get(r.stores[coll], id) = r.body
             /\ r.body.id = id
\* C2: for Address, Song and Artist a create whose identifier is already a
\* key of the target collection fails with Conflict (400) and leaves all
\* stores as they were; a create whose identifier is not present succeeds
\* (201) and stores the returned record under that identifier.
C2_CreateConflict == ForAllCreates(C2_ConflictOrStored)
\* A create with a taken identifier is refused while another one succeeds.
C2_Witness ==
    /\ ~ForAllCreates(LAMBDA coll, id, raw, r : ~(coll = "songs" /\ r.status = 400))
    /\ ~ForAllCreates(LAMBDA coll, id, raw, r : ~(coll = "songs" /\ r.status = 201))
    /\ ~ForAllCreates(LAMBDA coll, id, raw, r : ~(coll = "artists" /\ r.status = 400))

\* ------------------------------------------------------------------- C3
\* The filters of a collection that match on an embedded list.
Structural(coll) ==
    IF coll = "persons" THEN {"city", "country"}
    ELSE IF coll = "songs" THEN {"artist_name"} ELSE {}
\* A filter string equals a field's value: the string itself for a str, the
\* textual form for an identifier or a date; a None field equals no string.
FieldEquals(value, filter) == ~IsNone(value) /\ Str(value.v) = filter
\* A list request with scalar filters only answers with the stored records,
\* in insertion order, that equal every supplied filter.
C3_ExactlyMatching(coll, f, r) ==
    (\A g \in Structural(coll) : f[g] = None) =>
        /\ r.status = 200
        /\ r.body = List(Filter(dict_values(Stores[coll]),
                                LAMBDA rec : \A g \in DOMAIN f \ Structural(coll) :
                                    f[g] = None \/ FieldEquals(rec[g], f[g])))
\* C3: list returns, in insertion order, exactly the stored records for which
\* every supplied scalar filter equals the record's value of that field;
\* unsupplied filters are ignored, and no filter gives all records.
C3_ListReturnsMatching == ForAllLists(C3_ExactlyMatching)

\* ------------------------------------------------------------------- C4
\* An empty body on an existing identifier is answered 200 with the stored
\* record, and no store changes.
C4_Accepted(coll, k, raw, r) ==
    dict_in(Stores[coll], k) /\ IsEmptyBody(raw) =>
        r.status = 200 /\ r.stores = Stores /\ r.body = dict_get(Stores[coll], k)
\* C4: a partial update with an empty body on an existing identifier is
\* accepted in every collection and leaves the stored record unchanged.
C4_EmptyUpdateIsNoOp ==
    \A k \in Uuids : \A raw \in {x \in RawAddresses \cup RawArtists : IsEmptyBody(x)} :
        /\ C4_Accepted("addresses", k, raw, update_address(k, raw))
        /\ C4_Accepted("persons", k, raw, update_person(k, raw, <<>>))
        /\ C4_Accepted("songs", k, raw, update_song(k, raw, <<>>))
        /\ C4_Accepted("artists", k, raw, update_artist(k, raw))

\* ------------------------------------------------------------------- C5
\* The status of a call on k is decided by whether k is stored.
C5_Outcome(coll, k, r, absentStatus, presentStatus) ==
    IF dict_in(Stores[coll], k) THEN r.status = presentStatus ELSE r.status = absentStatus
\* C5: every request whose body passes schema validation ends in success, in
\* Conflict (a create on an existing identifier) or in NotFound (a get, update
\* or delete on an absent identifier), never in a server fault: the record a
\* partial update merges is always a valid Read record.
C5_NoServerFault ==
    /\ ForAllCreates(LAMBDA coll, k, raw, r : C5_Outcome(coll, k, r, 201, 400))
    /\ ForAllUpdates(LAMBDA coll, k, raw, supplied, r : C5_Outcome(coll, k, r, 404, 200))
    /\ ForAllGets(LAMBDA coll, k, r : C5_Outcome(coll, k, r, 404, 200))
    /\ ForAllDeletes(LAMBDA coll, k, r : C5_Outcome(coll, k, r, 404, 200))
    /\ ForAllLists(LAMBDA coll, f, r : r.status = 200)

\* ------------------------------------------------------------------- C6
\* A stored field carries the value a body supplied for it: the value itself,
\* and for an embedded list one element per supplied element, equal to it in
\* every field that element supplies.
Carries(value, given) ==
    IF IsList(given)
    THEN /\ IsList(value) /\ Len(value.v) = Len(given.v)
         /\ \A i \in DOMAIN given.v : \A g \in DOMAIN given.v[i] : value.v[i][g] = given.v[i][g]
    ELSE value = given
\* The record under k after a successful update is the one before it with
\* the supplied fields overwritten; nothing else changes anywhere.
C6_Overlay(coll, k, raw, supplied, r) ==
    r.status = 200 =>
        LET old == dict_get(Stores[coll], k)
            new == dict_get(r.stores[coll], k)
        IN  /\ r.body = new
            /\ DOMAIN new = DOMAIN old
            /\ \A f \in DOMAIN old :
                  IF f \in supplied THEN Carries(new[f], raw[f]) ELSE new[f] = old[f]
            /\ Len(r.stores[coll]) = Len(Stores[coll])
            /\ \A i \in DOMAIN Stores[coll] :
                  /\ r.stores[coll][i].k = Stores[coll][i].k
                  /\ Stores[coll][i].k # k => r.stores[coll][i] = Stores[coll][i]
            /\ \A c \in DOMAIN Stores \ {coll} : r.stores[c] = Stores[c]
C7_NotFoundIffAbsent(coll, k, r) ==
    /\ r.status = 404 <=> ~dict_in(Stores[coll], k)
    /\ r.status = 404 => r.stores = Stores
\* A successful delete answers with the deleted record's name and leaves the
\* identifier absent.
C7_Deleted(coll, k, r) ==
    r.status = 200 =>
        /\ r.body.detail[3] = dict_get(Stores[coll], k).name.v
        /\ ~dict_in(r.stores[coll], k)
\* C7: get, partial update and delete on k fail with NotFound exactly when k
\* is absent, a failing call changes no store, and after a successful delete
\* (whose message names the deleted record) k stays absent, so that a get
\* fails, until k is created again.
C7_NotFound ==
    /\ ForAllGets(C7_NotFoundIffAbsent)
    /\ ForAllUpdates(LAMBDA coll, k, raw, supplied, r : C7_NotFoundIffAbsent(coll, k, r))
    /\ ForAllDeletes(LAMBDA coll, k, r : C7_NotFoundIffAbsent(coll, k, r) /\ C7_Deleted(coll, k, r))
    \* only a create of k makes k present
    /\ ForAllUpdates(LAMBDA coll, k, raw, supplied, r :
          \A c \in DOMAIN Stores : dict_keys(r.stores[c]) \subseteq dict_keys(Stores[c]))
    /\ ForAllDeletes(LAMBDA coll, k, r :
          \A c \in DOMAIN Stores : dict_keys(r.stores[c]) \subseteq dict_keys(Stores[c]))
    /\ ForAllCreates(LAMBDA coll, k, raw, r :
          \A c \in DOMAIN Stores : dict_keys(r.stores[c]) \subseteq dict_keys(Stores[c]) \cup {k})
\* A song and an artist can be deleted while other identifiers are absent.
C7_Witness ==
    \E k1, k2 \in Uuids :
        /\ delete_song(k1).status = 200 /\ get_song(k2).status = 404
        /\ delete_artist(k2).status = 200 /\ get_artist(k1).status = 404
        /\ update_artist(k1, [name |-> Str("Abel")]).status = 404

\* ------------------------------------------------------------------- C8
\* The records of a collection with at least one element of their embedded
\* list whose field g is v.
WithEmbedded(coll, list, g, v) ==
    Filter(dict_values(Stores[coll]),
           LAMBDA rec : \E i \in 1..Len(rec[list].v) : rec[list].v[i][g] = v)
OnlyFilter(f, g) == f[g] # None /\ \A h \in DOMAIN f \ {g} : f[h] = None
\* A list request with one filter on the embedded list answers with the
\* records that embed a matching element, none of them with an empty list.
C8_Nested(coll, f, r) ==
    /\ coll = "persons" /\ OnlyFilter(f, "city") =>
          /\ r.body = List(WithEmbedded("persons", "addresses", "city", f.city))
          /\ \A i \in DOMAIN r.body.v : Len(r.body.v[i].addresses.v) > 0
    /\ coll = "persons" /\ OnlyFilter(f, "country") =>
          /\ r.body = List(WithEmbedded("persons", "addresses", "country", f.country))
          /\ \A i \in DOMAIN r.body.v : Len(r.body.v[i].addresses.v) > 0
    /\ coll = "songs" /\ OnlyFilter(f, "artist_name") =>
          /\ r.body = List(WithEmbedded("songs", "artists", "name", f.artist_name))
          /\ \A i \in DOMAIN r.body.v : Len(r.body.v[i].artists.v) > 0
\* C8: listing persons by city (or country) returns exactly the persons with
\* an embedded address of that city (country), listing songs by artist_name
\* exactly the songs with an embedded artist of that name; a record whose
\* embedded list is empty never matches.
C8_NestedFilters == ForAllLists(C8_Nested)
\* A song whose second artist only has the name asked for is listed, a song
\* without artists is not.
C8_Witness ==
    /\ Len(songs) = 2
    /\ \E i, j \in DOMAIN songs :
          /\ Len(songs[i].v.artists.v) = 2
          /\ songs[i].v.artists.v[1].name # Str("Abel")
          /\ songs[i].v.artists.v[2].name = Str("Abel")
          /\ Len(songs[j].v.artists.v) = 0
          /\ list_song(None, None, Str("Abel")).body = List(<<songs[i].v>>)

\* ------------------------------------------------------------------- C9
\* A call leaves the record under identifier k of collection coll as it is.
Keeps(r, coll, k) ==
    dict_in(Stores[coll], k) =>
        dict_in(r.stores[coll], k) /\ dict_get(r.stores[coll], k) = dict_get(Stores[coll], k)
KeepsAllBut(r, coll, k) ==
    \A c \in DOMAIN Stores : \A j \in Uuids : <<c, j>> # <<coll, k>> => Keeps(r, c, j)
KeepsAll(r) == \A c \in DOMAIN Stores : \A j \in Uuids : Keeps(r, c, j)
\* C9: after a successful create a get on the identifier of the returned
\* record returns a record equal to it in every field, as long as no partial
\* update or delete on that identifier came in between: the create stores
\* the record it returns under that identifier, a get returns the stored
\* record, and every call but an update or delete on an identifier keeps the
\* record stored under it.
C9_RoundTrip ==
    /\ ForAllCreates(LAMBDA coll, k, raw, r :
          /\ r.status = 201 =>
                /\ dict_in(r.stores[coll], r.body.id)
                /\ dict_get(r.stores[coll], r.body.id) = r.body
          /\ KeepsAll(r))
    /\ ForAllGets(LAMBDA coll, k, r :
          /\ dict_in(Stores[coll], k) => r.status = 200 /\ r.body = dict_get(Stores[coll], k)
          /\ KeepsAll(r))
    /\ ForAllLists(LAMBDA coll, f, r : KeepsAll(r))
    /\ ForAllUpdates(LAMBDA coll, k, raw, supplied, r : KeepsAllBut(r, coll, k))
    /\ ForAllDeletes(LAMBDA coll, k, r : KeepsAllBut(r, coll, k))
\* A person is created from a body that carries an id next to a stored
\* person, and a song next to a stored song.
C9_Witness ==
    /\ Len(persons) = 1 /\ Len(songs) = 1
    /\ \E raw \in RawPersons : \E u \in uuid4 :
          /\ "id" \in DOMAIN raw /\ u # raw.id
          /\ create_person(raw, u, <<>>).status = 201
          /\ Len(create_person(raw, u, <<>>).stores.persons) = 2
    /\ \E raw \in RawSongs : \E u \in DrawId(raw) :
          /\ "id" \in DOMAIN raw /\ "artists" \notin DOMAIN raw
          /\ create_song(raw, u, <<>>).status = 201
          /\ Len(create_song(raw, u, <<>>).stores.songs) = 2
          /\ get_song(songs[1].k).body = songs[1].v

\* ------------------------------------------------------------------ C10
\* A call leaves every collection but its own as it was.
C10_OwnCollectionOnly(coll, r) == \A c \in DOMAIN Stores \ {coll} : r.stores[c] = Stores[c]
\* C10: create, partial update and delete on the artists collection leave
\* every song unchanged, embedded artist snapshots with the same identifier
\* included, address requests leave every person unchanged, and every request
\* changes only the collection it addresses.
C10_Frame ==
    /\ ForAllCreates(LAMBDA coll, k, raw, r : C10_OwnCollectionOnly(coll, r))
    /\ ForAllUpdates(LAMBDA coll, k, raw, supplied, r : C10_OwnCollectionOnly(coll, r))
    /\ ForAllDeletes(LAMBDA coll, k, r : C10_OwnCollectionOnly(coll, r))
    /\ ForAllGets(LAMBDA coll, k, r : C10_OwnCollectionOnly(coll, r))
    /\ ForAllLists(LAMBDA coll, f, r : C10_OwnCollectionOnly(coll, r))
\* A song embeds a snapshot of a stored artist, and an update renames the
\* artist.
C10_Witness ==
    \E i \in DOMAIN songs : \E j \in DOMAIN songs[i].v.artists.v : \E raw \in RawArtists :
        LET a == songs[i].v.artists.v[j]
        IN  /\ dict_in(artists, a.id)
            /\ dict_get(artists, a.id).name = a.name
            /\ update_artist(a.id, raw).status = 200
            /\ update_artist(a.id, raw).body.name # a.name

\* ------------------------------------------------------------------ C11
\* A handler run from its first step to its answer with no other thread in
\* between.
RECURSIVE RunAlone(_, _)
RunAlone(store, th) ==
    IF th.pc = "done" THEN [store |-> store, th |-> th]
    ELSE LET r == Step(store, th) IN RunAlone(r.store, r.th)
\* The requests of the threads order[1], order[2], ... served one after the
\* other from a songs dict: the dict they leave and each thread's status.
RECURSIVE SerialRun(_, _, _)
SerialRun(store, order, status) ==
    IF order = <<>> THEN [store |-> store, status |-> status]
    ELSE LET t == Head(order)
             r == RunAlone(store, [Idle EXCEPT !.pc = "check", !.req = threads[t].req])
         IN  SerialRun(r.store, Tail(order), [status EXCEPT ![t] = r.th.status])
Orders(ts) ==
    {o \in [1..Cardinality(ts) -> ts] : \A i, j \in DOMAIN o : i # j => o[i] # o[j]}
Answered == {t \in Threads : threads[t].pc = "done"}
\* What the answered requests did is what some serial order of them does.
C11_SomeSerialOrder ==
    \E o \in Orders(Answered) :
        LET r == SerialRun(round_start, o, [t \in Threads |-> 0])
        IN  r.store = songs /\ \A t \in Answered : r.status[t] = threads[t].status
Requested(op, k) == {t \in Answered : threads[t].req.op = op /\ threads[t].req.song_id = k}
Succeeded(op, k) == {t \in Requested(op, k) : threads[t].status \in {200, 201}}
\* C11: when the song handlers run interleaved, their membership test, read
\* and write or pop being separate steps, every outcome is that of some serial
\* order of the same requests: two creates of one identifier never both
\* succeed, a song whose delete succeeded is not stored again by an update
\* that was in flight, and no request is answered with a failure other than
\* Conflict (400) or NotFound (404).
C11_Serializable ==
    /\ \A t \in Threads : threads[t].status \in {0, 200, 201, 400, 404}
    /\ Quiescent =>
          /\ C11_SomeSerialOrder
          /\ \A k \in Uuids :
                /\ Requested("delete_song", k) = {} => Cardinality(Succeeded("create_song", k)) <= 1
                /\ Succeeded("delete_song", k) # {} /\ Requested("create_song", k) = {}
                      => ~dict_in(songs, k)

====
